---- MODULE Spec2Model ----
(***************************************************************************)
(* The console banking demo: the Savings / Checking account hierarchy, the *)
(* two account directories (the linked-list CustomerList and the           *)
(* vector-backed AccountManager) and the menu dispatcher                   *)
(* performBankingOperations, in its two builds:                            *)
(*   variant = "list"    Banking_System.cpp  (CustomerList, applyInterest) *)
(*   variant = "vector"  unnamed/part_001    (AccountManager, amounts <= 0 *)
(*                                            rejected by the menu)        *)
(*                                                                         *)
(* Money is a double in the source.  Here an amount is an integer number   *)
(* of cents, and an interest rate an integer number of percent; every      *)
(* operation is exact on these, and applyInterest is taken only where the  *)
(* interest is a whole number of cents (Exact).                            *)
(***************************************************************************)
EXTENDS Integers, Sequences, FiniteSets, TLC

VARIABLES
    variant,    \* which build runs: "list" or "vector"; "both" in the side-by-side runs
    customers,  \* the CustomerList: [head, nodes], nodes the heap of CustomerNode
    manager,    \* the AccountManager: [accounts], the vector of owned accounts
    pc,         \* where main is: "main" (directory calls), "loop", "done"
    last,       \* the call or menu request just served, and what it printed
    steps,      \* number of calls and requests served so far
    opCount     \* per account object: calls of deposit/withdraw/applyInterest

vars == <<variant, customers, manager, pc, last, steps, opCount>>

----------------------------------------------------------------------------
(* Bounds of the model *)

MaxOps == 3          \* menu requests served in one run
MaxAccounts == 3     \* accounts a directory holds in the directory runs

NULL == 0

Names == {"Laurie", "Larry"}
AllNames == Names \cup {"Nobody"}
Amounts == {-100, 0, 100, 250}
InitBalances == {0, 100}
Rates == {10, 50}
OverdraftLimits == {0, 100}
Choices == {"D", "W", "S", "H", "I", "E", "X"}

----------------------------------------------------------------------------
(* Accounts *)

\* stream << fixed << setprecision(2) << amount : sign, integer part and the
\* two decimals of an amount given in cents
formatAmount(amount) ==
    LET mag == IF amount < 0 THEN -amount ELSE amount
    IN  [neg |-> amount < 0, whole |-> mag \div 100, frac |-> mag % 100]

\* the strings "Deposited: $" + ..., "Withdrawn: $" + ..., "Interest Applied: $" + ...
Transaction(prefix, amount) == [text |-> prefix, amt |-> formatAmount(amount)]

SavingsAccount(id, name, balance, rate) ==
    [id |-> id, kind |-> "Savings", owner |-> name, balance |-> balance,
     interestRate |-> rate, overdraftLimit |-> 0, transactionHistory |-> <<>>]

CheckingAccount(id, name, balance, overdraft) ==
    [id |-> id, kind |-> "Checking", owner |-> name, balance |-> balance,
     interestRate |-> 0, overdraftLimit |-> overdraft, transactionHistory |-> <<>>]

\* faulty variant: push_front instead of push_back
addTransaction_Front(acc, transaction) ==
    [acc EXCEPT !.transactionHistory = <<transaction>> \o @]

addTransaction(acc, transaction) ==
    [acc EXCEPT !.transactionHistory = Append(@, transaction)]

calculateInterest(balance, rate) == (balance * rate) \div 100

\* the interest is a whole number of cents
Exact(balance, rate) == (balance * rate) % 100 = 0

\* faulty variant: the overdraft is left out of the comparison
canWithdraw_NoOverdraft(balance, overdraft, amount) == amount <= balance

canWithdraw(balance, overdraft, amount) == amount <= balance + overdraft

\* faulty variant: the entry logs the new balance, not the amount
SavingsDeposit_LogsBalance(acc, amount) ==
    addTransaction([acc EXCEPT !.balance = @ + amount],
                   Transaction("Deposited", acc.balance + amount))

SavingsDeposit(acc, amount) ==
    addTransaction([acc EXCEPT !.balance = @ + amount],
                   Transaction("Deposited", amount))

\* how a call ends: what = "" on return, e.what() when it threw; acc is the
\* account as the call leaves it
Return(acc) == [what |-> "", acc |-> acc]
Throw(msg, acc) == [what |-> msg, acc |-> acc]

\* faulty variant: >= in place of >
SavingsWithdraw_OffByOne(acc, amount) ==
    IF amount >= acc.balance
    THEN Throw("Insufficient funds", acc)
    ELSE Return(addTransaction([acc EXCEPT !.balance = @ - amount],
                               Transaction("Withdrawn", amount)))

\* faulty variant: the balance is debited before the check
SavingsWithdraw_DebitFirst(acc, amount) ==
    LET debited == [acc EXCEPT !.balance = @ - amount]
    IN  IF debited.balance < 0
        THEN Throw("Insufficient funds", debited)
        ELSE Return(addTransaction(debited, Transaction("Withdrawn", amount)))

SavingsWithdraw(acc, amount) ==
    IF amount > acc.balance
    THEN Throw("Insufficient funds", acc)
    ELSE Return(addTransaction([acc EXCEPT !.balance = @ - amount],
                               Transaction("Withdrawn", amount)))

\* faulty variant: the logged interest is computed after the deposit
applyInterest_AfterDeposit(acc) ==
    LET interest == calculateInterest(acc.balance, acc.interestRate)
        paid == SavingsDeposit(acc, interest)
    IN  addTransaction(paid,
                       Transaction("Interest Applied",
                                   calculateInterest(paid.balance, paid.interestRate)))

applyInterest(acc) ==
    LET interest == calculateInterest(acc.balance, acc.interestRate)
    IN  addTransaction(SavingsDeposit(acc, interest),
                       Transaction("Interest Applied", interest))

CheckingDeposit(acc, amount) ==
    addTransaction([acc EXCEPT !.balance = @ + amount],
                   Transaction("Deposited", amount))

\* CheckingAccount::withdraw of Banking_System.cpp
CheckingWithdraw(acc, amount) ==
    IF ~canWithdraw(acc.balance, acc.overdraftLimit, amount)
    THEN Throw("Overdraft limit exceeded", acc)
    ELSE Return(addTransaction([acc EXCEPT !.balance = @ - amount],
                               Transaction("Withdrawn", amount)))

\* CheckingAccount::withdraw of the vector build
CheckingWithdrawInline(acc, amount) ==
    IF amount > acc.balance + acc.overdraftLimit
    THEN Throw("Overdraft limit exceeded", acc)
    ELSE Return(addTransaction([acc EXCEPT !.balance = @ - amount],
                               Transaction("Withdrawn", amount)))

\* virtual dispatch on the account's dynamic type
deposit(acc, amount) ==
    IF acc.kind = "Savings" THEN SavingsDeposit(acc, amount)
                            ELSE CheckingDeposit(acc, amount)

withdraw(acc, amount) ==
    IF acc.kind = "Savings" THEN SavingsWithdraw(acc, amount)
    ELSE IF variant = "list" THEN CheckingWithdraw(acc, amount)
                             ELSE CheckingWithdrawInline(acc, amount)

----------------------------------------------------------------------------
(* CustomerList: a singly linked list of heap nodes, newest first *)

NodeAddrs == 1..MaxAccounts

\* CustomerList() : head(nullptr)
CustomerList == [head |-> NULL, nodes |-> <<>>]

\* new CustomerNode(...): an address not in use
NewNode(list) == CHOOSE n \in NodeAddrs \ DOMAIN list.nodes :
                    \A m \in NodeAddrs \ DOMAIN list.nodes : n <= m

\* faulty variant: newNode->next = head is left out
addCustomer_NoLink(list, account) ==
    LET newNode == NewNode(list)
    IN  [head  |-> newNode,
         nodes |-> [n \in DOMAIN list.nodes \cup {newNode} |->
                      IF n = newNode THEN [account |-> account, next |-> NULL]
                                     ELSE list.nodes[n]]]

addCustomer(list, account) ==
    LET newNode == NewNode(list)
    IN  [head  |-> newNode,
         nodes |-> [n \in DOMAIN list.nodes \cup {newNode} |->
                      IF n = newNode THEN [account |-> account, next |-> list.head]
                                     ELSE list.nodes[n]]]

\* delete curr: the node leaves the heap
Unlink(list, curr, prev) ==
    LET nxt == list.nodes[curr].next
        kept == DOMAIN list.nodes \ {curr}
    IN  [head  |-> IF prev # NULL THEN list.head ELSE nxt,
         nodes |-> [n \in kept |->
                      IF n = prev THEN [list.nodes[n] EXCEPT !.next = nxt]
                                  ELSE list.nodes[n]]]

\* the while loop of deleteCustomer from (curr, prev)
RECURSIVE DeleteFrom(_, _, _, _)
DeleteFrom(list, curr, prev, name) ==
    IF curr = NULL THEN [found |-> FALSE, list |-> list]
    ELSE IF list.nodes[curr].account.owner = name
         THEN [found |-> TRUE, list |-> Unlink(list, curr, prev)]
         ELSE DeleteFrom(list, list.nodes[curr].next, curr, name)

\* faulty variant: the scan starts after the head node
deleteCustomer_SkipHead(list, name) ==
    IF list.head = NULL THEN [found |-> FALSE, list |-> list]
    ELSE DeleteFrom(list, list.nodes[list.head].next, list.head, name)

deleteCustomer(list, name) == DeleteFrom(list, list.head, NULL, name)

\* the while loop of getCustomerByName from curr
RECURSIVE FindFrom(_, _, _)
FindFrom(list, curr, name) ==
    IF curr = NULL THEN NULL
    ELSE IF list.nodes[curr].account.owner = name THEN curr
         ELSE FindFrom(list, list.nodes[curr].next, name)

\* the node whose account is returned, NULL for nullptr
getCustomerByName(list, name) == FindFrom(list, list.head, name)

\* the accounts in the order displayAll visits them
RECURSIVE WalkFrom(_, _)
WalkFrom(list, curr) ==
    IF curr = NULL THEN <<>>
    ELSE <<list.nodes[curr].account>> \o WalkFrom(list, list.nodes[curr].next)

displayAll(list) == WalkFrom(list, list.head)

----------------------------------------------------------------------------
(* AccountManager: a vector of owned accounts, oldest first *)

AccountManager == [accounts |-> <<>>]

addAccount(mgr, account) == [accounts |-> Append(mgr.accounts, account)]

\* faulty variant: the last match wins
getAccount_LastMatch(mgr, name) ==
    LET hits == {i \in 1..Len(mgr.accounts) : mgr.accounts[i].owner = name}
    IN  IF hits = {} THEN NULL
        ELSE CHOOSE i \in hits : \A j \in hits : i >= j

\* the index of the element whose account is returned, NULL for nullptr
getAccount(mgr, name) ==
    LET hits == {i \in 1..Len(mgr.accounts) : mgr.accounts[i].owner = name}
    IN  IF hits = {} THEN NULL
        ELSE CHOOSE i \in hits : \A j \in hits : i <= j

displayAccounts(mgr) == mgr.accounts

----------------------------------------------------------------------------
(* State shared by the two builds *)

AcctIds == 1..MaxAccounts

Call(op, name, amount, out, shown, acct) ==
    [op |-> op, name |-> name, amount |-> amount, out |-> out,
     shown |-> shown, acct |-> acct]

NoCall == Call("none", "", 0, "", <<>>, NULL)

NoCount == [ops |-> 0, interest |-> 0]

\* the account objects a directory owns
Owned ==
    IF variant = "list"
    THEN {customers.nodes[n].account : n \in DOMAIN customers.nodes}
    ELSE {manager.accounts[i] : i \in 1..Len(manager.accounts)}

\* make_unique<...>: the address of the new account object
NewId == CHOOSE i \in AcctIds \ {a.id : a \in Owned} :
            \A j \in AcctIds \ {a.id : a \in Owned} : i <= j

make_unique(kind, id, name, balance, param) ==
    IF kind = "Savings" THEN SavingsAccount(id, name, balance, param)
                        ELSE CheckingAccount(id, name, balance, param)

\* the third constructor argument used in the directory runs
Params(kind) == IF kind = "Savings" THEN {50} ELSE {100}

----------------------------------------------------------------------------
(* Calls on a directory, made by its owner *)

AddCustomer(kind, name, balance, param) ==
    /\ pc = "main" /\ variant = "list"
    /\ Cardinality(Owned) < MaxAccounts
    /\ LET account == make_unique(kind, NewId, name, balance, param)
       IN  /\ customers' = addCustomer(customers, account)
           /\ last' = Call("addCustomer", name, 0, "", <<>>, account.id)
           /\ opCount' = [opCount EXCEPT ![account.id] = NoCount]
    /\ UNCHANGED <<variant, manager, pc, steps>>

DeleteCustomer(name) ==
    /\ pc = "main" /\ variant = "list"
    /\ LET r == deleteCustomer(customers, name)
       IN  /\ customers' = r.list
           /\ last' = Call("deleteCustomer", name, 0,
                           IF r.found THEN "true" ELSE "false", <<>>, NULL)
    /\ UNCHANGED <<variant, manager, pc, steps, opCount>>

AddAccount(kind, name, balance, param) ==
    /\ pc = "main" /\ variant = "vector"
    /\ Cardinality(Owned) < MaxAccounts
    /\ LET account == make_unique(kind, NewId, name, balance, param)
       IN  /\ manager' = addAccount(manager, account)
           /\ last' = Call("addAccount", name, 0, "", <<>>, account.id)
           /\ opCount' = [opCount EXCEPT ![account.id] = NoCount]
    /\ UNCHANGED <<variant, customers, pc, steps>>

----------------------------------------------------------------------------
(* performBankingOperations: one action per path through the loop body *)

\* customers.getCustomerByName(name) / manager.getAccount(name)
find(name) ==
    IF variant = "list" THEN getCustomerByName(customers, name)
                        ELSE getAccount(manager, name)

\* *account
deref(p) ==
    IF variant = "list" THEN customers.nodes[p].account
                        ELSE manager.accounts[p]

\* the directory after the account at p became acc
store(p, acc) ==
    IF variant = "list"
    THEN /\ customers' = [customers EXCEPT !.nodes[p].account = acc]
         /\ UNCHANGED manager
    ELSE /\ manager' = [manager EXCEPT !.accounts[p] = acc]
         /\ UNCHANGED customers

\* the line display() prints
display(acc) ==
    [kind |-> acc.kind, owner |-> acc.owner, balance |-> formatAmount(acc.balance),
     param |-> IF acc.kind = "Savings" THEN acc.interestRate ELSE acc.overdraftLimit]

\* the lines displayTransactionHistory() prints
displayTransactionHistory(acc) == acc.transactionHistory

Serving == pc = "loop" /\ steps < MaxOps

Counted(acc, isInterest) ==
    [opCount EXCEPT ![acc.id] = [ops |-> @.ops + 1,
                                 interest |-> @.interest + (IF isInterest THEN 1 ELSE 0)]]

ExitName ==
    /\ Serving
    /\ pc' = "done"
    /\ last' = Call("exit", "exit", 0, "", <<>>, NULL)
    /\ steps' = steps + 1
    /\ UNCHANGED <<variant, customers, manager, opCount>>

NotFound(name) ==
    /\ Serving
    /\ find(name) = NULL
    /\ last' = Call("find", name, 0, "Account not found.", <<>>, NULL)
    /\ steps' = steps + 1
    /\ UNCHANGED <<variant, customers, manager, pc, opCount>>

DepositChoice(name, amount) ==
    /\ Serving
    /\ find(name) # NULL
    /\ LET account == deref(find(name))
       IN  IF variant = "vector" /\ amount <= 0
           THEN /\ last' = Call("D", name, amount, "Invalid deposit amount.", <<>>, account.id)
                /\ UNCHANGED <<customers, manager, opCount>>
           ELSE /\ store(find(name), deposit(account, amount))
                /\ opCount' = Counted(account, FALSE)
                /\ last' = Call("D", name, amount, "Deposit successful.", <<>>, account.id)
    /\ steps' = steps + 1
    /\ UNCHANGED <<variant, pc>>

WithdrawChoice(name, amount) ==
    /\ Serving
    /\ find(name) # NULL
    /\ LET account == deref(find(name))
       IN  IF variant = "vector" /\ amount <= 0
           THEN /\ last' = Call("W", name, amount, "Invalid withdrawal amount.", <<>>, account.id)
                /\ UNCHANGED <<customers, manager, opCount>>
           ELSE LET r == withdraw(account, amount)
                IN  /\ store(find(name), r.acc)
                    /\ opCount' = Counted(account, FALSE)
                    /\ last' = Call("W", name, amount,
                                    IF r.what = "" THEN "Withdrawal successful."
                                                   ELSE r.what,
                                    <<>>, account.id)
    /\ steps' = steps + 1
    /\ UNCHANGED <<variant, pc>>

ShowChoice(name) ==
    /\ Serving
    /\ find(name) # NULL
    /\ LET account == deref(find(name))
       IN  last' = Call("S", name, 0, "", <<display(account)>>, account.id)
    /\ steps' = steps + 1
    /\ UNCHANGED <<variant, customers, manager, pc, opCount>>

HistoryChoice(name) ==
    /\ Serving
    /\ find(name) # NULL
    /\ LET account == deref(find(name))
       IN  last' = Call("H", name, 0, "Transaction History",
                        displayTransactionHistory(account), account.id)
    /\ steps' = steps + 1
    /\ UNCHANGED <<variant, customers, manager, pc, opCount>>

\* case 'I' exists in the list build only
InterestChoice(name) ==
    /\ Serving
    /\ variant = "list"
    /\ find(name) # NULL
    /\ LET account == deref(find(name))
       IN  IF account.kind = "Savings"
           THEN /\ Exact(account.balance, account.interestRate)
                /\ store(find(name), applyInterest(account))
                /\ opCount' = Counted(account, TRUE)
                /\ last' = Call("I", name, 0, "Interest applied.", <<>>, account.id)
           ELSE /\ last' = Call("I", name, 0,
                                "Interest can only be applied to savings accounts.",
                                <<>>, account.id)
                /\ UNCHANGED <<customers, manager, opCount>>
    /\ steps' = steps + 1
    /\ UNCHANGED <<variant, pc>>

ExitChoice(name) ==
    /\ Serving
    /\ find(name) # NULL
    /\ pc' = "done"
    /\ last' = Call("E", name, 0, "", <<>>, deref(find(name)).id)
    /\ steps' = steps + 1
    /\ UNCHANGED <<variant, customers, manager, opCount>>

\* default: any other character, and 'I' in the vector build
InvalidChoice(name, choice) ==
    /\ Serving
    /\ find(name) # NULL
    /\ choice \notin {"D", "W", "S", "H", "E"}
    /\ choice = "I" => variant = "vector"
    /\ last' = Call(choice, name, 0, "Invalid choice.", <<>>, deref(find(name)).id)
    /\ steps' = steps + 1
    /\ UNCHANGED <<variant, customers, manager, pc, opCount>>

----------------------------------------------------------------------------
(* Specifications *)

\* main() of a build: the directory seeded with one Savings and one Checking
\* account, then performBankingOperations
Seeded(b1, rate, b2, overdraft) ==
    LET a1 == SavingsAccount(1, "Laurie", b1, rate)
        a2 == CheckingAccount(2, "Larry", b2, overdraft)
    IN  IF variant = "list"
        THEN /\ customers = addCustomer(addCustomer(CustomerList, a1), a2)
             /\ manager = AccountManager
        ELSE /\ customers = CustomerList
             /\ manager = addAccount(addAccount(AccountManager, a1), a2)

Init ==
    /\ variant \in {"list", "vector"}
    /\ \E b1 \in InitBalances, rate \in Rates,
          b2 \in InitBalances, overdraft \in OverdraftLimits :
          Seeded(b1, rate, b2, overdraft)
    /\ pc = "loop"
    /\ last = NoCall
    /\ steps = 0
    /\ opCount = [i \in AcctIds |-> NoCount]

Next ==
    \/ ExitName
    \/ \E name \in AllNames : NotFound(name)
    \/ \E name \in AllNames, amount \in Amounts : DepositChoice(name, amount)
    \/ \E name \in AllNames, amount \in Amounts : WithdrawChoice(name, amount)
    \/ \E name \in AllNames : ShowChoice(name)
    \/ \E name \in AllNames : HistoryChoice(name)
    \/ \E name \in AllNames : InterestChoice(name)
    \/ \E name \in AllNames : ExitChoice(name)
    \/ \E name \in AllNames, choice \in Choices : InvalidChoice(name, choice)

Spec == Init /\ [][Next]_vars

\* a client of the directory alone: any sequence of adds and removes
InitDir ==
    /\ variant \in {"list", "vector"}
    /\ customers = CustomerList
    /\ manager = AccountManager
    /\ pc = "main"
    /\ last = NoCall
    /\ steps = 0
    /\ opCount = [i \in AcctIds |-> NoCount]

NextDir ==
    \/ \E kind \in {"Savings", "Checking"}, name \in Names, balance \in InitBalances :
          \E param \in Params(kind) : AddCustomer(kind, name, balance, param)
    \/ \E name \in AllNames : DeleteCustomer(name)
    \/ \E kind \in {"Savings", "Checking"}, name \in Names, balance \in InitBalances :
          \E param \in Params(kind) : AddAccount(kind, name, balance, param)

SpecDir == InitDir /\ [][NextDir]_vars

\* one caller driving the two directories with the same sequence of adds:
\* the same account goes to a CustomerList and to an AccountManager
AddBoth(kind, name, balance, param) ==
    /\ pc = "main" /\ variant = "both"
    /\ Len(manager.accounts) < MaxAccounts
    /\ LET account == make_unique(kind, Len(manager.accounts) + 1, name, balance, param)
       IN  /\ customers' = addCustomer(customers, account)
           /\ manager' = addAccount(manager, account)
           /\ last' = Call("add", name, 0, "", <<>>, account.id)
           /\ opCount' = [opCount EXCEPT ![account.id] = NoCount]
    /\ UNCHANGED <<variant, pc, steps>>

InitBoth ==
    /\ variant = "both"
    /\ customers = CustomerList
    /\ manager = AccountManager
    /\ pc = "main"
    /\ last = NoCall
    /\ steps = 0
    /\ opCount = [i \in AcctIds |-> NoCount]

NextBoth ==
    \E kind \in {"Savings", "Checking"}, name \in Names, balance \in InitBalances :
       \E param \in Params(kind) : AddBoth(kind, name, balance, param)

SpecBoth == InitBoth /\ [][NextBoth]_vars

----------------------------------------------------------------------------
(* Properties *)

\* the account object with address id, before (AccountOf) and after
\* (AccountAfter) a step
AccountOf(id) == CHOOSE a \in Owned : a.id = id
AccountAfter(id) == CHOOSE a \in Owned' : a.id = id

\* the step served a request whose deposit / withdraw / applyInterest call
\* reached the account of the given kind
Reached(op, kind) ==
    /\ last'.op = op
    /\ last'.out \notin {"Invalid deposit amount.", "Invalid withdrawal amount.",
                         "Interest can only be applied to savings accounts.",
                         "Invalid choice."}
    /\ AccountOf(last'.acct).kind = kind

\* C1: the balance of a Savings account never goes negative, whatever
\* deposits, withdrawals and interest applications the menu serves.
C1_SavingsNeverNegative ==
    \A a \in Owned : a.kind = "Savings" => a.balance >= 0

\* C2: the balance of a Checking account never goes below -overdraftLimit,
\* whatever deposits and withdrawals the menu serves.
C2_CheckingWithinOverdraft ==
    \A a \in Owned : a.kind = "Checking" => a.balance >= -a.overdraftLimit

\* C3: Savings withdraw(a) succeeds iff a <= balance; on success the balance
\* drops by a; on failure it is unchanged and "Insufficient funds" is reported.
C3_SavingsWithdraw ==
    [][Reached("W", "Savings") =>
         LET old == AccountOf(last'.acct)
             new == AccountAfter(last'.acct)
             a   == last'.amount
         IN  /\ (last'.out = "Withdrawal successful.") <=> (a <= old.balance)
             /\ a <= old.balance => new.balance = old.balance - a
             /\ a > old.balance => /\ new.balance = old.balance
                                   /\ last'.out = "Insufficient funds"]_vars

\* a Savings withdrawal of the whole positive balance went through
C3_Witness ==
    /\ last.op = "W" /\ last.out = "Withdrawal successful." /\ last.amount > 0
    /\ \E a \in Owned : a.id = last.acct /\ a.kind = "Savings" /\ a.balance = 0

\* C4: Checking withdraw(a) succeeds iff a <= balance + overdraftLimit; on
\* success the balance drops by a (it may go negative); on failure it is
\* unchanged and "Overdraft limit exceeded" is reported.
C4_CheckingWithdraw ==
    [][Reached("W", "Checking") =>
         LET old == AccountOf(last'.acct)
             new == AccountAfter(last'.acct)
             a   == last'.amount
             ok  == a <= old.balance + old.overdraftLimit
         IN  /\ (last'.out = "Withdrawal successful.") <=> ok
             /\ ok => new.balance = old.balance - a
             /\ ~ok => /\ new.balance = old.balance
                       /\ last'.out = "Overdraft limit exceeded"]_vars

\* a Checking withdrawal went through and left the balance negative
C4_Witness ==
    /\ last.op = "W" /\ last.out = "Withdrawal successful." /\ last.amount > 0
    /\ \E a \in Owned : a.id = last.acct /\ a.kind = "Checking" /\ a.balance < 0

\* the domain failures the dispatcher reports
DomainFailures ==
    {"Account not found.", "Interest can only be applied to savings accounts.",
     "Insufficient funds", "Overdraft limit exceeded"}

\* C5: a request that ends in a reported domain failure leaves the directory
\* and every account's balance and history unchanged, and the loop goes on.
C5_FailureChangesNothing ==
    [][last'.out \in DomainFailures =>
         /\ customers' = customers
         /\ manager' = manager
         /\ pc' = "loop"]_vars

\* a withdrawal was rejected on an account that already has a history
C5_Witness ==
    /\ last.out \in {"Insufficient funds", "Overdraft limit exceeded"}
    /\ \E a \in Owned : a.id = last.acct /\ a.transactionHistory # <<>>

\* C6: deposit(a) with a >= 0 adds a to the balance and appends exactly one
\* "Deposited: $a" entry at the end of the account's history.
C6_Deposit ==
    [][(\E kind \in {"Savings", "Checking"} : Reached("D", kind)) /\ last'.amount >= 0 =>
         LET old == AccountOf(last'.acct)
             new == AccountAfter(last'.acct)
             a   == last'.amount
             n   == Len(old.transactionHistory)
         IN  /\ new.balance = old.balance + a
             /\ Len(new.transactionHistory) = n + 1
             /\ SubSeq(new.transactionHistory, 1, n) = old.transactionHistory
             /\ new.transactionHistory[n + 1].text = "Deposited"
             /\ ~new.transactionHistory[n + 1].amt.neg
             /\ new.transactionHistory[n + 1].amt.frac \in 0..99
             /\ 100 * new.transactionHistory[n + 1].amt.whole
                  + new.transactionHistory[n + 1].amt.frac = a]_vars

\* a positive deposit was made on an account that already has a history
C6_Witness ==
    /\ last.op = "D" /\ last.out = "Deposit successful." /\ last.amount > 0
    /\ \E a \in Owned : a.id = last.acct /\ Len(a.transactionHistory) >= 2

C8_OneEntryPerOperation ==
    \A a \in Owned :
        Len(a.transactionHistory) = opCount[a.id].ops + opCount[a.id].interest

\* the entries one call of deposit / withdraw / applyInterest logs
Logged(call, id) ==
    IF call.acct # id THEN 0
    ELSE IF call.out \in {"Deposit successful.", "Withdrawal successful."} THEN 1
    ELSE IF call.out = "Interest applied." THEN 2
    ELSE 0

\* C8 amended: each deposit and each successful withdrawal appends one entry,
\* each interest application two, a rejected withdrawal and every other
\* request none; entries are appended at the end, never reordered or dropped.
C8_HistoryAppendOnly ==
    [][\A a \in Owned :
         LET new == AccountAfter(a.id)
             n   == Len(a.transactionHistory)
             k   == Logged(last', a.id)
         IN  /\ Len(new.transactionHistory) = n + k
             /\ SubSeq(new.transactionHistory, 1, n) = a.transactionHistory
             /\ k = 1 => new.transactionHistory[n + 1].text =
                           (IF last'.op = "D" THEN "Deposited" ELSE "Withdrawn")
             /\ k = 2 => /\ new.transactionHistory[n + 1].text = "Deposited"
                         /\ new.transactionHistory[n + 2].text = "Interest Applied"]_vars

\* a withdrawal was rejected on an account whose history holds two entries
C8_Witness ==
    /\ last.out \in {"Insufficient funds", "Overdraft limit exceeded"}
    /\ \E a \in Owned : /\ a.id = last.acct
                        /\ Len(a.transactionHistory) = 2
                        /\ opCount[a.id].ops > Len(a.transactionHistory)

\* C9 as stated: in both directories, after add(account) a find by its owner
\* name returns the account just added, whatever the directory held.
C9_FindReturnsAdded ==
    last.op \in {"addCustomer", "addAccount"} =>
        /\ find(last.name) # NULL
        /\ deref(find(last.name)).id = last.acct

\* C9 amended: in CustomerList find returns the account just added; in
\* AccountManager it does so only when no account with that owner name was
\* held before, and otherwise returns the earliest-added account of that name.
C9_FindFirstMatch ==
    /\ last.op = "addCustomer" =>
          /\ getCustomerByName(customers, last.name) # NULL
          /\ customers.nodes[getCustomerByName(customers, last.name)].account.id
               = last.acct
    /\ last.op = "addAccount" =>
          LET n       == Len(manager.accounts)
              earlier == {i \in 1..(n - 1) : manager.accounts[i].owner = last.name}
              found   == getAccount(manager, last.name)
          IN  /\ manager.accounts[n].id = last.acct
              /\ earlier = {} => found = n
              /\ earlier # {} => /\ found \in earlier
                                 /\ \A i \in earlier : found <= i

\* an account was added to an AccountManager that already held its owner name
C9_Witness ==
    /\ last.op = "addAccount"
    /\ \E i \in 1..(Len(manager.accounts) - 1) :
          manager.accounts[i].owner = last.name

\* C10 as stated: after deleteCustomer(name), getCustomerByName(name) returns
\* absent, for every directory content.
C10_FindAbsentAfterRemove ==
    last.op = "deleteCustomer" => getCustomerByName(customers, last.name) = NULL

\* the accounts of a list owned by name, in list order
Matches(list, name) ==
    LET Owns(a) == a.owner = name
    IN  SelectSeq(displayAll(list), Owns)

\* C10 amended: deleteCustomer(name) removes the first account owned by name
\* and nothing else; getCustomerByName(name) then returns absent when the list
\* held at most one such account, and the next one in list order otherwise.
C10_RemoveFirstMatch ==
    [][last'.op = "deleteCustomer" =>
         LET name == last'.name
             old  == Matches(customers, name)
             new  == Matches(customers', name)
             p    == getCustomerByName(customers', name)
         IN  /\ (last'.out = "true") <=> (old # <<>>)
             /\ old = <<>> => customers' = customers
             /\ old # <<>> => /\ new = Tail(old)
                              /\ Len(displayAll(customers')) =
                                   Len(displayAll(customers)) - 1
             /\ Len(old) <= 1 => p = NULL
             /\ Len(old) > 1 => /\ p # NULL
                                /\ customers'.nodes[p].account = old[2]]_vars

\* the only account of an owner was removed from a list that holds others
C10_Witness ==
    /\ last.op = "deleteCustomer" /\ last.out = "true"
    /\ getCustomerByName(customers, last.name) = NULL
    /\ customers.head # NULL

\* the account a CustomerList lookup resolves to, as a sequence of at most one
FoundInList(name) ==
    LET p == getCustomerByName(customers, name)
    IN  IF p = NULL THEN <<>> ELSE <<customers.nodes[p].account>>

\* the account an AccountManager lookup resolves to, likewise
FoundInVector(name) ==
    LET i == getAccount(manager, name)
    IN  IF i = NULL THEN <<>> ELSE <<manager.accounts[i]>>

\* C11 as stated: after the same sequence of adds, find(name) resolves to the
\* same account in both directories for every name, and listAll yields the
\* accounts in the same order in both.
C11_SameFindSameOrder ==
    /\ \A name \in AllNames : FoundInList(name) = FoundInVector(name)
    /\ displayAll(customers) = displayAccounts(manager)

\* C11 amended: after the same sequence of adds, listAll of the CustomerList
\* is listAll of the AccountManager reversed; find(name) is absent in both
\* when no added account has that owner, resolves to the same account when
\* exactly one has, and otherwise resolves to the latest-added one in the
\* CustomerList and the earliest-added one in the AccountManager.
C11_SameUpToOrder ==
    LET added == displayAccounts(manager)
        n     == Len(added)
        shown == displayAll(customers)
    IN  /\ Len(shown) = n
        /\ \A i \in 1..n : shown[i] = added[n + 1 - i]
        /\ \A name \in AllNames :
              LET hits == {i \in 1..n : added[i].owner = name}
              IN  /\ hits = {} => FoundInList(name) = <<>> /\ FoundInVector(name) = <<>>
                  /\ hits # {} =>
                        /\ \E i \in hits : /\ \A j \in hits : i >= j
                                           /\ FoundInList(name) = <<added[i]>>
                        /\ \E i \in hits : /\ \A j \in hits : i <= j
                                           /\ FoundInVector(name) = <<added[i]>>
                  /\ Cardinality(hits) = 1 => FoundInList(name) = FoundInVector(name)

\* three accounts were added, two of one owner and one of another
C11_Witness ==
    /\ variant = "both"
    /\ Len(manager.accounts) = 3
    /\ \E name \in Names :
          Cardinality({i \in 1..3 : manager.accounts[i].owner = name}) = 2

\* C12: a deposit or withdraw request with an amount <= 0 is rejected by the
\* dispatcher before it reaches the account: the resolved account's balance
\* and transaction history are as they were before the request.
C12_NonPositiveRejected ==
    [][last'.op \in {"D", "W"} /\ last'.amount <= 0 =>
         /\ AccountAfter(last'.acct).balance = AccountOf(last'.acct).balance
         /\ AccountAfter(last'.acct).transactionHistory
              = AccountOf(last'.acct).transactionHistory]_vars

====
